---- MODULE Spec2Model ----
(***************************************************************************)
(* Model of the ticketing workflow of src/server.ts: the Express routes    *)
(* POST /api/bookings, POST /api/organizer/scan, GET /api/organizer/stats  *)
(* and POST /api/events, the auth routes POST /api/auth/guest and         *)
(* /api/auth/otp/*, and the socket's chat:message handler, over the Prisma *)
(* store.  Every route handler is an                                       *)
(* async function: it runs atomically up to each `await prisma...`, and    *)
(* the handlers of concurrent requests interleave at those awaits.  One    *)
(* action of the model is one such atomic piece: a store call together     *)
(* with the synchronous code that follows it.                              *)
(***************************************************************************)
EXTENDS Integers, FiniteSets, Sequences, TLC

\* ---------------------------------------------------------------- bounds
NumProcs == 2        \* requests that can be in flight at the same time
MaxBookings == 2     \* Booking rows the store can hold
MaxEvents == 3       \* Event rows the store can hold
MaxClock == 1        \* last value of Date.now()
MaxChats == 2        \* chat:message events a socket receives
MaxUsers == 2        \* User rows the auth endpoints can create
MaxOtpLogs == 2      \* OTPLog rows the store can hold

Procs == 1..NumProcs

\* ------------------------------------------------------------ store rows
\* An id generated by the store for a new row: unique per table.
Id(prefix, n) == prefix \o ToString(n)

AllEventIds == {Id("e", n) : n \in 1..MaxEvents}
AllTicketIds == {Id("t", n) : n \in 1..MaxBookings}

\* The User rows with their Student / Organizer profiles (seeded data).
\* student / organizer are <<>> when the user has no such profile.
Users ==
  [u \in {"org", "orgB", "stuA", "stuB", "guest"} |->
     CASE u = "org"  -> [role |-> "ORGANIZER", student |-> <<>>,
                         organizer |-> <<[id |-> "o1", isApproved |-> TRUE]>>]
       [] u = "orgB" -> [role |-> "ORGANIZER", student |-> <<>>,
                         organizer |-> <<[id |-> "o2", isApproved |-> FALSE]>>]
       [] u = "stuA" -> [role |-> "STUDENT", student |-> <<[id |-> "s1", userId |-> "stuA"]>>,
                         organizer |-> <<>>]
       [] u = "stuB" -> [role |-> "STUDENT", student |-> <<[id |-> "s2", userId |-> "stuB"]>>,
                         organizer |-> <<>>]
       [] u = "guest" -> [role |-> "GUEST", student |-> <<>>, organizer |-> <<>>]]

Callers == DOMAIN Users

\* authenticateToken: req.user is the payload of the verified token.
TokenOf(u) == [id |-> u, role |-> Users[u].role]

\* The Event rows present at start: one event of each organizer.
SeedEvents ==
  { [id |-> Id("e", 1), organizerId |-> "o1", status |-> "APPROVED", capacity |-> 1,
      price |-> 299],
    [id |-> Id("e", 2), organizerId |-> "o2", status |-> "APPROVED", capacity |-> 2,
      price |-> 150] }

\* Request bodies.
TicketIdInputs == AllTicketIds \cup {"tX"}
EventIdInputs == AllEventIds \cup {"eX"}
EventBodies ==
  { [capacity |-> 1, price |-> 0, organizerId |-> "o2", status |-> "APPROVED"],
    [capacity |-> 2, price |-> 150, organizerId |-> "o1", status |-> "PENDING"] }

VARIABLES
  events,      \* Event rows
  bookings,    \* Booking rows
  tickets,     \* Ticket rows
  attendance,  \* Attendance rows (ticketId: the ticket whose scan created the row)
  clock,       \* Date.now()
  pc,          \* pc[p]: where the handler of request p stands
  req,         \* req[p]: the request (route, caller's token, body)
  loc,         \* loc[p]: the handler's local constants
  res,         \* res[p]: the response sent
  okScans,     \* okScans[t]: number of success responses to a scan of ticket t
  okBookings,  \* ids of the bookings returned by a successful booking request
  chatMessages,\* ChatMessage rows, in insertion order
  cpc,         \* cpc[h]: where invocation h of the chat:message handler stands
  cdata,       \* cdata[h]: the socket of the invocation and the event's data
  cloc,        \* cloc[h]: the invocation's local constants
  received,    \* received[s]: chat:message events delivered on socket s
  emitted,     \* emitted[s]: the chat:response events emitted to socket s
  users,       \* User rows created by the auth endpoints
  otpLogs,     \* OTPLog rows
  issued       \* payloads of the tokens signed by the auth endpoints

chat == <<chatMessages, cpc, cdata, cloc, received, emitted>>
vars == <<events, bookings, tickets, attendance, clock, pc, req, loc, res, okScans, okBookings,
          chatMessages, cpc, cdata, cloc, received, emitted, users, otpLogs, issued>>
auth == <<users, otpLogs, issued>>
store == <<events, bookings, tickets, attendance>>

\* io.on('connection'): the connected sockets, and what chat:message carries.
Sockets == {"k1", "k2"}
ChatUserIds == {"stuA", "org"}
ChatTexts == {"hi"}
NoData == [socket |-> "none"]

NoReq == [op |-> "none"]
NoLoc == [none |-> TRUE]
NoRes == [status |-> 0]

\* ------------------------------------------------------------- queries
\* prisma.ticket.findUnique({ where: { id }, include: { booking: { include:
\* { student, event } } } }): a sequence of zero or one ticket.
StudentRow(sid) == CHOOSE s \in {Users[u].student[1] : u \in {v \in Callers : Users[v].student # <<>>}} : s.id = sid

BookingOf(t) == CHOOSE b \in bookings : b.id = t.bookingId

\* (mutant) the lookup ignores the id: findFirst without a where clause.
FindTicketAny(id) ==
  IF tickets = {} THEN <<>>
  ELSE LET t == CHOOSE x \in tickets : TRUE
           b == BookingOf(t)
       IN  <<[id |-> t.id, isScanned |-> t.isScanned,
              booking |-> [id |-> b.id, studentId |-> b.studentId, eventId |-> b.eventId,
                           student |-> StudentRow(b.studentId)]]>>

FindTicket(id) ==
  LET found == {t \in tickets : t.id = id}
  IN  IF found = {} THEN <<>>
      ELSE LET t == CHOOSE x \in found : TRUE
               b == BookingOf(t)
           IN  <<[id |-> t.id, isScanned |-> t.isScanned,
                  booking |-> [id |-> b.id, studentId |-> b.studentId, eventId |-> b.eventId,
                               student |-> StudentRow(b.studentId)]]>>

AttendanceOf(tid) == {a \in attendance : a.ticketId = tid}

\* (mutant) the code is the timestamp alone.
QrCodeTimeOnly(bookingId, now) == "TICKET-" \o ToString(now)

\* The ticket code minted at booking time: `TICKET-${booking.id}-${Date.now()}`.
QrCode(bookingId, now) == "TICKET-" \o bookingId \o "-" \o ToString(now)

\* ------------------------------------------------------------- responses
\* res.json / res.status / res.sendStatus followed by return: the handler ends.
Respond(p, r) ==
  /\ pc' = [pc EXCEPT ![p] = "done"]
  /\ res' = [res EXCEPT ![p] = r]
  /\ loc' = [loc EXCEPT ![p] = NoLoc]

\* The handler goes on to its next await, with its local constants l.
Goto(p, label, l) ==
  /\ pc' = [pc EXCEPT ![p] = label]
  /\ res' = res
  /\ loc' = [loc EXCEPT ![p] = l]

\* A store call rejects and no handler catches it: the handler ends there
\* without an answer (status 500 stands for "no response").
Unhandled(p) == Respond(p, [status |-> 500])

\* Slot p takes a new request when it holds none.
Free(p) == pc[p] = "idle"


Init ==
  /\ events = SeedEvents
  /\ bookings = {}
  /\ tickets = {}
  /\ attendance = {}
  /\ clock = 0
  /\ pc = [p \in Procs |-> "idle"]
  /\ req = [p \in Procs |-> NoReq]
  /\ loc = [p \in Procs |-> NoLoc]
  /\ res = [p \in Procs |-> NoRes]
  /\ okScans = [t \in AllTicketIds |-> 0]
  /\ okBookings = {}
  /\ chatMessages = <<>>
  /\ cpc = [h \in Procs |-> "idle"]
  /\ cdata = [h \in Procs |-> NoData]
  /\ cloc = [h \in Procs |-> NoLoc]
  /\ received = [s \in Sockets |-> 0]
  /\ emitted = [s \in Sockets |-> <<>>]
  /\ users = {}
  /\ otpLogs = {}
  /\ issued = {}

\* ----------------------------------------------- POST /api/organizer/scan
\* The request arrives; the role check runs before the first await.
\* (mutant) the role check lets every authenticated caller through.
ScanRoleAny(user) == user.role \in {"ORGANIZER", "STUDENT", "GUEST"}

ScanRoleOK(user) == user.role = "ORGANIZER"

StartScan(p, u, tid) ==
  /\ Free(p)
  /\ req' = [req EXCEPT ![p] = [op |-> "scan", user |-> TokenOf(u), ticketId |-> tid]]
  /\ IF ScanRoleOK(TokenOf(u))
       THEN Goto(p, "scan_find", NoLoc)
       ELSE Respond(p, [status |-> 403])
  /\ UNCHANGED <<store, clock, okScans, okBookings, chat, auth>>

\* (mutant) the isScanned check is missing.
ScanFindNoScannedCheck(p) ==
  /\ pc[p] = "scan_find"
  /\ LET ticket == FindTicket(req[p].ticketId)
     IN  IF ticket = <<>>
           THEN Respond(p, [status |-> 404, error |-> "Ticket not found"])
           ELSE Goto(p, "scan_update", [ticket |-> ticket[1]])
  /\ UNCHANGED <<store, clock, req, okScans, okBookings, chat, auth>>

\* (mutant) one rejection for both checks: a scanned ticket answers like a
\* missing one.
ScanFindOneError(p) ==
  /\ pc[p] = "scan_find"
  /\ LET ticket == FindTicket(req[p].ticketId)
     IN  IF ticket = <<>> \/ ticket[1].isScanned
           THEN Respond(p, [status |-> 404, error |-> "Ticket not found"])
           ELSE Goto(p, "scan_update", [ticket |-> ticket[1]])
  /\ UNCHANGED <<store, clock, req, okScans, okBookings, chat, auth>>

\* await prisma.ticket.findUnique, then the two checks.
ScanFind(p) ==
  /\ pc[p] = "scan_find"
  /\ LET ticket == FindTicket(req[p].ticketId)
     IN  IF ticket = <<>>
           THEN Respond(p, [status |-> 404, error |-> "Ticket not found"])
           ELSE IF ticket[1].isScanned
                  THEN Respond(p, [status |-> 400, error |-> "Ticket already scanned"])
                  ELSE Goto(p, "scan_update", [ticket |-> ticket[1]])
  /\ UNCHANGED <<store, clock, req, okScans, okBookings, chat, auth>>

\* await prisma.ticket.update({ where: { id }, data: { isScanned: true, scannedAt: new Date() } })
\* (mutant) the update toggles the flag instead of setting it.
MarkScannedToggle(t, now) ==
  [t EXCEPT !.isScanned = ~t.isScanned, !.scannedAt = IF t.isScanned THEN <<>> ELSE <<now>>]

\* (mutant) the update sets the flag and leaves the timestamp.
MarkScannedNoTime(t, now) == [t EXCEPT !.isScanned = TRUE]

MarkScanned(t, now) == [t EXCEPT !.isScanned = TRUE, !.scannedAt = <<now>>]

\* (mutant) the update has no where clause: updateMany over all tickets.
ScanUpdateAll(p) ==
  /\ pc[p] = "scan_update"
  /\ tickets' = {MarkScanned(t, clock) : t \in tickets}
  /\ Goto(p, "scan_attend", loc[p])
  /\ UNCHANGED <<events, bookings, attendance, clock, req, okScans, okBookings, chat, auth>>

ScanUpdate(p) ==
  /\ pc[p] = "scan_update"
  /\ tickets' = {IF t.id = req[p].ticketId THEN MarkScanned(t, clock) ELSE t : t \in tickets}
  /\ Goto(p, "scan_attend", loc[p])
  /\ UNCHANGED <<events, bookings, attendance, clock, req, okScans, okBookings, chat, auth>>

\* await prisma.attendance.create, then res.json({ success: true, student }).
\* (mutant) studentId and eventId are swapped.
NewAttendanceSwapped(ticket) ==
  [id |-> Id("a", Cardinality(attendance) + 1),
   studentId |-> ticket.booking.eventId,
   eventId |-> ticket.booking.studentId,
   ticketId |-> ticket.id]

NewAttendance(ticket) ==
  [id |-> Id("a", Cardinality(attendance) + 1),
   studentId |-> ticket.booking.studentId,
   eventId |-> ticket.booking.eventId,
   ticketId |-> ticket.id]

ScanAttend(p) ==
  /\ pc[p] = "scan_attend"
  /\ attendance' = attendance \cup {NewAttendance(loc[p].ticket)}
  /\ Respond(p, [status |-> 200, success |-> TRUE, student |-> loc[p].ticket.booking.student])
  /\ okScans' = [okScans EXCEPT ![req[p].ticketId] = @ + 1]
  /\ UNCHANGED <<events, bookings, tickets, clock, req, okBookings, chat, auth>>

\* ------------------------------------------------------ POST /api/bookings
StartBooking(p, u, eid) ==
  /\ Free(p)
  /\ Cardinality(bookings) + Cardinality({q \in Procs : pc[q] \in {"book_student", "book_create"}})
       < MaxBookings
  /\ req' = [req EXCEPT ![p] = [op |-> "book", user |-> TokenOf(u), eventId |-> eid]]
  /\ Goto(p, "book_student", NoLoc)
  /\ UNCHANGED <<store, clock, okScans, okBookings, chat, auth>>

\* (mutant) the lookup ignores the user: findFirst without a where clause.
FindStudentAny(userId) == <<[id |-> "s1", userId |-> "stuA"]>>

\* await prisma.student.findUnique({ where: { userId } })
FindStudent(userId) == Users[userId].student

BookStudent(p) ==
  /\ pc[p] = "book_student"
  /\ LET student == FindStudent(req[p].user.id)
     IN  IF student = <<>>
           THEN Respond(p, [status |-> 400, error |-> "Not a student"])
           ELSE Goto(p, "book_create", [student |-> student[1]])
  /\ UNCHANGED <<store, clock, req, okScans, okBookings, chat, auth>>

\* The store accepts a Booking row only for an existing Event (foreign key).
EventExists(eid) == \E e \in events : e.id = eid

\* (mutant) the booking is created unpaid.
NewBookingPending(student, eid) ==
  [id |-> Id("b", Cardinality(bookings) + 1), studentId |-> student.id,
   eventId |-> eid, status |-> "PENDING"]

NewBooking(student, eid) ==
  [id |-> Id("b", Cardinality(bookings) + 1), studentId |-> student.id,
   eventId |-> eid, status |-> "PAID"]

\* await prisma.booking.create
BookCreate(p) ==
  /\ pc[p] = "book_create"
  /\ IF EventExists(req[p].eventId)
       THEN LET booking == NewBooking(loc[p].student, req[p].eventId)
            IN  /\ bookings' = bookings \cup {booking}
                /\ Goto(p, "book_ticket", [student |-> loc[p].student, booking |-> booking])
       ELSE /\ Unhandled(p)
            /\ UNCHANGED bookings
  /\ UNCHANGED <<events, tickets, attendance, clock, req, okScans, okBookings, chat, auth>>

\* await prisma.ticket.create, then res.json({ booking, ticket }).
\* (mutant) the ticket references the student instead of the booking.
NewTicketOfStudent(booking, now) ==
  [id |-> Id("t", Cardinality(tickets) + 1), bookingId |-> booking.studentId,
   qrCode |-> QrCode(booking.id, now), isScanned |-> FALSE, scannedAt |-> <<>>]

NewTicket(booking, now) ==
  [id |-> Id("t", Cardinality(tickets) + 1), bookingId |-> booking.id,
   qrCode |-> QrCode(booking.id, now), isScanned |-> FALSE, scannedAt |-> <<>>]

BookTicket(p) ==
  /\ pc[p] = "book_ticket"
  /\ LET ticket == NewTicket(loc[p].booking, clock)
     IN  /\ tickets' = tickets \cup {ticket}
         /\ Respond(p, [status |-> 200, booking |-> loc[p].booking, ticket |-> ticket])
  /\ okBookings' = okBookings \cup {loc[p].booking.id}
  /\ UNCHANGED <<events, bookings, attendance, clock, req, okScans, chat, auth>>

\* ------------------------------------------------- GET /api/organizer/stats
StartStats(p, u) ==
  /\ Free(p)
  /\ req' = [req EXCEPT ![p] = [op |-> "stats", user |-> TokenOf(u)]]
  /\ Goto(p, "stats_org", NoLoc)
  /\ UNCHANGED <<store, clock, okScans, okBookings, chat, auth>>

\* await prisma.organizer.findUnique({ where: { userId } })
FindOrganizer(userId) == Users[userId].organizer

StatsOrg(p) ==
  /\ pc[p] = "stats_org"
  /\ LET organizer == FindOrganizer(req[p].user.id)
     IN  IF organizer = <<>>
           THEN Respond(p, [status |-> 403])
           ELSE Goto(p, "stats_events", [organizer |-> organizer[1]])
  /\ UNCHANGED <<store, clock, req, okScans, okBookings, chat, auth>>

\* await prisma.event.findMany({ where: { organizerId } }); eventIds
StatsEvents(p) ==
  /\ pc[p] = "stats_events"
  /\ LET eventIds == {e.id : e \in {x \in events : x.organizerId = loc[p].organizer.id}}
     IN  Goto(p, "stats_bookings", [eventIds |-> eventIds])
  /\ UNCHANGED <<store, clock, req, okScans, okBookings, chat, auth>>

\* (mutant) the bookings are not filtered by the organizer's events.
StatsBookingsAll(p) ==
  /\ pc[p] = "stats_bookings"
  /\ Goto(p, "stats_attendance", [eventIds |-> loc[p].eventIds, bookings |-> Cardinality(bookings)])
  /\ UNCHANGED <<store, clock, req, okScans, okBookings, chat, auth>>

\* await prisma.booking.findMany({ where: { eventId: { in: eventIds } } })
StatsBookings(p) ==
  /\ pc[p] = "stats_bookings"
  /\ LET found == {b \in bookings : b.eventId \in loc[p].eventIds}
     IN  Goto(p, "stats_attendance", [eventIds |-> loc[p].eventIds, bookings |-> Cardinality(found)])
  /\ UNCHANGED <<store, clock, req, okScans, okBookings, chat, auth>>

\* bookings.reduce((acc, curr) => acc + 100, 0)
\* (mutant) a flat amount instead of an amount per booking.
TotalRevenueFlat(n) == IF n > 0 THEN 100 ELSE 0

MockPrice == 100
TotalRevenue(n) == n * MockPrice

\* (mutant) the ratio is not scaled to a percentage.
AttendanceRateNoPercent(a, b) == IF b > 0 THEN <<a, b>> ELSE <<0, 1>>

\* bookings.length > 0 ? (attendance.length / bookings.length) * 100 : 0,
\* kept as the fraction <<numerator, denominator>>.
AttendanceRate(a, b) == IF b > 0 THEN <<a * 100, b>> ELSE <<0, 1>>

\* await prisma.attendance.findMany({ where: { eventId: { in: eventIds } } }), then res.json
StatsAttendance(p) ==
  /\ pc[p] = "stats_attendance"
  /\ LET found == {a \in attendance : a.eventId \in loc[p].eventIds}
     IN  Respond(p, [status |-> 200,
                     totalEvents |-> Cardinality(loc[p].eventIds),
                     totalRegistrations |-> loc[p].bookings,
                     totalRevenue |-> TotalRevenue(loc[p].bookings),
                     attendanceRate |-> AttendanceRate(Cardinality(found), loc[p].bookings)])
  /\ UNCHANGED <<store, clock, req, okScans, okBookings, chat, auth>>

\* --------------------------------------------------------- POST /api/events
EventRoleOK(user) == user.role = "ORGANIZER"

StartEvent(p, u, body) ==
  /\ Free(p)
  /\ Cardinality(events) + Cardinality({q \in Procs : pc[q] \in {"event_org", "event_create"}})
       < MaxEvents
  /\ req' = [req EXCEPT ![p] = [op |-> "event", user |-> TokenOf(u), body |-> body]]
  /\ IF EventRoleOK(TokenOf(u))
       THEN Goto(p, "event_org", NoLoc)
       ELSE Respond(p, [status |-> 403])
  /\ UNCHANGED <<store, clock, okScans, okBookings, chat, auth>>

\* await prisma.organizer.findUnique, then the approval check.
EventOrg(p) ==
  /\ pc[p] = "event_org"
  /\ LET organizer == FindOrganizer(req[p].user.id)
     IN  IF organizer = <<>> \/ ~organizer[1].isApproved
           THEN Respond(p, [status |-> 403, error |-> "Organizer not approved"])
           ELSE Goto(p, "event_create", [organizer |-> organizer[1]])
  /\ UNCHANGED <<store, clock, req, okScans, okBookings, chat, auth>>

\* (mutant) the body is spread last: its organizerId and status win.
NewEventBodyLast(body, organizer) ==
  [id |-> Id("e", Cardinality(events) + 1), capacity |-> body.capacity, price |-> body.price,
   organizerId |-> body.organizerId, status |-> body.status]

\* data: { ...req.body, organizerId: organizer.id, status: 'PENDING' }
NewEvent(body, organizer) ==
  [id |-> Id("e", Cardinality(events) + 1), capacity |-> body.capacity, price |-> body.price,
   organizerId |-> organizer.id, status |-> "PENDING"]

\* await prisma.event.create, then res.json(event).
EventCreate(p) ==
  /\ pc[p] = "event_create"
  /\ LET event == NewEvent(req[p].body, loc[p].organizer)
     IN  /\ events' = events \cup {event}
         /\ Respond(p, [status |-> 200, event |-> event])
  /\ UNCHANGED <<bookings, tickets, attendance, clock, req, okScans, okBookings, chat, auth>>

\* ------------------------------------------------------- POST /api/auth/*
\* What the bodies of the auth requests carry.  handleLogin of the frontend
\* sends the role the visitor picked to the guest endpoint.
BodyRoles == {"GUEST", "ORGANIZER", "ADMIN"}
Phones == {"p1", "p2"}
Otps == {"111111", "222222"}

\* expiresAt: new Date(Date.now() + 5 * 60 * 1000); one tick of the model's
\* clock stands for this lifetime.
OtpTtl == 1

\* Requests that may still insert a User row.
UserSteps == {"guest_create", "verify_log", "verify_find", "verify_create"}
UsersPending == Cardinality(users) + Cardinality({q \in Procs : pc[q] \in UserSteps})

\* jwt.sign({ id: user.id, role: user.role }, JWT_SECRET)
Sign(user) == [id |-> user.id, role |-> user.role]

\* if (req.user.role !== 'ADMIN') return res.sendStatus(403)
AdminRoleOK(user) == user.role = "ADMIN"

\* POST /api/auth/guest arrives; the handler issues user.create.
StartGuest(p, role) ==
  /\ Free(p)
  /\ UsersPending < MaxUsers
  /\ req' = [req EXCEPT ![p] = [op |-> "guest", body |-> [role |-> role]]]
  /\ Goto(p, "guest_create", NoLoc)
  /\ UNCHANGED <<store, clock, okScans, okBookings, chat, auth>>

\* (mutant) the created user takes the role the body asks for.
NewGuestBodyRole(body) ==
  [id |-> Id("u", Cardinality(users) + 1), role |-> body.role, phone |-> <<>>]

\* data: { role: 'GUEST' }
NewGuest(body) ==
  [id |-> Id("u", Cardinality(users) + 1), role |-> "GUEST", phone |-> <<>>]

\* await prisma.user.create, then the token is signed and sent.
GuestCreate(p) ==
  /\ pc[p] = "guest_create"
  /\ LET user == NewGuest(req[p].body)
     IN  /\ users' = users \cup {user}
         /\ issued' = issued \cup {Sign(user)}
         /\ Respond(p, [status |-> 200, token |-> Sign(user), user |-> user])
  /\ UNCHANGED <<store, clock, req, okScans, okBookings, chat, otpLogs>>

\* POST /api/auth/otp/send arrives: the otp is drawn and the expiry computed
\* before oTPLog.create is awaited.
StartOtpSend(p, phone, otp) ==
  /\ Free(p)
  /\ Cardinality(otpLogs) + Cardinality({q \in Procs : pc[q] = "otp_create"}) < MaxOtpLogs
  /\ req' = [req EXCEPT ![p] = [op |-> "otp_send", phone |-> phone]]
  /\ Goto(p, "otp_create", [otp |-> otp, expiresAt |-> clock + OtpTtl])
  /\ UNCHANGED <<store, clock, okScans, okBookings, chat, auth>>

\* await prisma.oTPLog.create, then res.json({ message: 'OTP sent' }).
OtpCreate(p) ==
  /\ pc[p] = "otp_create"
  /\ otpLogs' = otpLogs \cup
       {[id |-> Id("l", Cardinality(otpLogs) + 1), phone |-> req[p].phone,
         otp |-> loc[p].otp, expiresAt |-> loc[p].expiresAt]}
  /\ Respond(p, [status |-> 200, message |-> "OTP sent"])
  /\ UNCHANGED <<store, clock, req, okScans, okBookings, chat, users, issued>>

\* POST /api/auth/otp/verify arrives: the query with `gt: new Date()` is
\* built and awaited.
StartOtpVerify(p, phone, otp) ==
  /\ Free(p)
  /\ UsersPending < MaxUsers
  /\ req' = [req EXCEPT ![p] = [op |-> "verify", phone |-> phone, otp |-> otp, now |-> clock]]
  /\ Goto(p, "verify_log", NoLoc)
  /\ UNCHANGED <<store, clock, okScans, okBookings, chat, auth>>

\* (mutant) the expiry is not part of the where clause.
ValidLogsNoExpiry(phone, otp, now) ==
  {l \in otpLogs : l.phone = phone /\ l.otp = otp}

\* where: { phone, otp, expiresAt: { gt: new Date() } }
ValidLogs(phone, otp, now) ==
  {l \in otpLogs : l.phone = phone /\ l.otp = otp /\ l.expiresAt > now}

\* await prisma.oTPLog.findFirst, then the check of the result.
VerifyLog(p) ==
  /\ pc[p] = "verify_log"
  /\ IF ValidLogs(req[p].phone, req[p].otp, req[p].now) = {}
       THEN Respond(p, [status |-> 400, error |-> "Invalid or expired OTP"])
       ELSE Goto(p, "verify_find", NoLoc)
  /\ UNCHANGED <<store, clock, req, okScans, okBookings, chat, auth>>

\* prisma.user.findUnique({ where: { phone } }): zero or one user.
UserOfPhone(phone) == {u \in users : u.phone = <<phone>>}

\* await prisma.user.findUnique: a user found is signed in at once, otherwise
\* user.create is issued.
VerifyFind(p) ==
  /\ pc[p] = "verify_find"
  /\ LET found == UserOfPhone(req[p].phone)
     IN  IF found = {}
           THEN /\ Goto(p, "verify_create", NoLoc)
                /\ UNCHANGED issued
           ELSE LET user == CHOOSE u \in found : TRUE
                IN  /\ issued' = issued \cup {Sign(user)}
                    /\ Respond(p, [status |-> 200, token |-> Sign(user), user |-> user])
  /\ UNCHANGED <<store, clock, req, okScans, okBookings, chat, users, otpLogs>>

\* data: { phone, role: 'STUDENT' }
NewStudentUser(phone) ==
  [id |-> Id("u", Cardinality(users) + 1), role |-> "STUDENT", phone |-> <<phone>>]

\* await prisma.user.create, then the token is signed and sent.  User.phone
\* is a unique field (findUnique takes it as its where clause): the create
\* of a second user with the phone rejects, and nothing catches it.
VerifyCreate(p) ==
  /\ pc[p] = "verify_create"
  /\ IF UserOfPhone(req[p].phone) # {}
       THEN /\ Unhandled(p)
            /\ UNCHANGED <<users, issued>>
       ELSE LET user == NewStudentUser(req[p].phone)
            IN  /\ users' = users \cup {user}
                /\ issued' = issued \cup {Sign(user)}
                /\ Respond(p, [status |-> 200, token |-> Sign(user), user |-> user])
  /\ UNCHANGED <<store, clock, req, okScans, okBookings, chat, otpLogs>>

\* ------------------------------------------------------------ environment
\* A store call of a handler rejects (connection lost, timeout): no handler
\* catches the rejection.
StoreSteps ==
  {"scan_find", "scan_update", "scan_attend", "book_student", "book_create", "book_ticket",
   "stats_org", "stats_events", "stats_bookings", "stats_attendance", "event_org", "event_create"}

StoreFault(p) ==
  /\ pc[p] \in StoreSteps
  /\ Unhandled(p)
  /\ UNCHANGED <<store, clock, req, okScans, okBookings, chat, auth>>

\* The connection of an answered request is closed; the slot is free again.
Finish(p) ==
  /\ pc[p] = "done"
  /\ pc' = [pc EXCEPT ![p] = "idle"]
  /\ req' = [req EXCEPT ![p] = NoReq]
  /\ loc' = [loc EXCEPT ![p] = NoLoc]
  /\ res' = [res EXCEPT ![p] = NoRes]
  /\ UNCHANGED <<store, clock, okScans, okBookings, chat, auth>>

\* Date.now() advances.
Tick ==
  /\ clock < MaxClock
  /\ clock' = clock + 1
  /\ UNCHANGED <<store, pc, req, loc, res, okScans, okBookings, chat, auth>>

\* ------------------------------------------- socket.on('chat:message')
\* What ai.models.generateContent resolves with: a response whose text is a
\* string, the empty string, or undefined.
AiResponses == {[text |-> <<"ok">>], [text |-> <<"">>], [text |-> <<>>]}
Apology == "I'm sorry, I couldn't process that."

\* response.text || "I'm sorry, I couldn't process that."
AiMessage(response) ==
  IF response.text = <<>> \/ response.text[1] = "" THEN Apology ELSE response.text[1]

\* A chat:message event arrives on socket s; a new invocation of the async
\* handler starts and issues the first create.
ChatReceive(h, s, userId, message) ==
  /\ cpc[h] = "idle"
  /\ received[s] < MaxChats
  /\ received' = [received EXCEPT ![s] = @ + 1]
  /\ cpc' = [cpc EXCEPT ![h] = "chat_save_user"]
  /\ cdata' = [cdata EXCEPT ![h] = [socket |-> s, userId |-> userId, message |-> message]]
  /\ UNCHANGED <<store, clock, pc, req, loc, res, okScans, okBookings, chatMessages, cloc, emitted, auth>>

\* await prisma.chatMessage.create({ data: { userId, message, role: 'user' } })
ChatSaveUser(h) ==
  /\ cpc[h] = "chat_save_user"
  /\ chatMessages' = Append(chatMessages,
       [userId |-> cdata[h].userId, message |-> cdata[h].message, role |-> "user"])
  /\ cpc' = [cpc EXCEPT ![h] = "chat_generate"]
  /\ UNCHANGED <<store, clock, pc, req, loc, res, okScans, okBookings, cdata, cloc, received, emitted, auth>>

\* await ai.models.generateContent(...) resolves; aiMessage is computed.
ChatGenerate(h, response) ==
  /\ cpc[h] = "chat_generate"
  /\ cloc' = [cloc EXCEPT ![h] = [aiMessage |-> AiMessage(response)]]
  /\ cpc' = [cpc EXCEPT ![h] = "chat_save_ai"]
  /\ UNCHANGED <<store, clock, pc, req, loc, res, okScans, okBookings, chatMessages, cdata, received, emitted, auth>>

\* await prisma.chatMessage.create({ ... role: 'assistant' }), then
\* socket.emit('chat:response', { message: aiMessage }); the handler returns.
ChatSaveAi(h) ==
  /\ cpc[h] = "chat_save_ai"
  /\ chatMessages' = Append(chatMessages,
       [userId |-> cdata[h].userId, message |-> cloc[h].aiMessage, role |-> "assistant"])
  /\ emitted' = [emitted EXCEPT ![cdata[h].socket] = Append(@, [message |-> cloc[h].aiMessage])]
  /\ cpc' = [cpc EXCEPT ![h] = "idle"]
  /\ cdata' = [cdata EXCEPT ![h] = NoData]
  /\ cloc' = [cloc EXCEPT ![h] = NoLoc]
  /\ UNCHANGED <<store, clock, pc, req, loc, res, okScans, okBookings, received, auth>>

\* await ai.models.generateContent(...) rejects (network error, bad API
\* key, quota).  The handler has no try/catch: the promise of the invocation
\* rejects and the rest of the handler never runs.
ChatGenerateRejects(h) ==
  /\ cpc[h] = "chat_generate"
  /\ cpc' = [cpc EXCEPT ![h] = "idle"]
  /\ cdata' = [cdata EXCEPT ![h] = NoData]
  /\ cloc' = [cloc EXCEPT ![h] = NoLoc]
  /\ UNCHANGED <<store, clock, pc, req, loc, res, okScans, okBookings, chatMessages, received, emitted, auth>>

\* ---------------------------------------------------------- specifications
\* Spec: the booking and scan routes, requests handled concurrently, store
\* calls that may reject.
CoreCallers == {"org", "stuA", "stuB"}
CoreEventIds == {Id("e", 1), "eX"}

Next ==
  \/ \E p \in Procs, u \in CoreCallers, tid \in TicketIdInputs : StartScan(p, u, tid)
  \/ \E p \in Procs : ScanFind(p)
  \/ \E p \in Procs : ScanUpdate(p)
  \/ \E p \in Procs : ScanAttend(p)
  \/ \E p \in Procs, u \in CoreCallers, eid \in CoreEventIds : StartBooking(p, u, eid)
  \/ \E p \in Procs : BookStudent(p)
  \/ \E p \in Procs : BookCreate(p)
  \/ \E p \in Procs : BookTicket(p)
  \/ \E p \in Procs : StoreFault(p)
  \/ \E p \in Procs : Finish(p)
  \/ Tick

Spec == Init /\ [][Next]_vars

\* SpecSeq: the four routes, all callers, one request after the other (a
\* request starts when no other is being handled), store calls that succeed.
Quiet == \A q \in Procs : pc[q] = "idle"

\* The codes of the issued tickets, which a caller may present instead of an id.
TicketCodes == {t.qrCode : t \in tickets}

NextSeq ==
  \/ \E p \in Procs, u \in Callers, tid \in TicketIdInputs \cup TicketCodes :
       Quiet /\ StartScan(p, u, tid)
  \/ \E p \in Procs : ScanFind(p)
  \/ \E p \in Procs : ScanUpdate(p)
  \/ \E p \in Procs : ScanAttend(p)
  \/ \E p \in Procs, u \in Callers, eid \in EventIdInputs : Quiet /\ StartBooking(p, u, eid)
  \/ \E p \in Procs : BookStudent(p)
  \/ \E p \in Procs : BookCreate(p)
  \/ \E p \in Procs : BookTicket(p)
  \/ \E p \in Procs, u \in Callers : Quiet /\ StartStats(p, u)
  \/ \E p \in Procs : StatsOrg(p)
  \/ \E p \in Procs : StatsEvents(p)
  \/ \E p \in Procs : StatsBookings(p)
  \/ \E p \in Procs : StatsAttendance(p)
  \/ \E p \in Procs, u \in Callers, body \in EventBodies : Quiet /\ StartEvent(p, u, body)
  \/ \E p \in Procs : EventOrg(p)
  \/ \E p \in Procs : EventCreate(p)
  \/ \E p \in Procs : Finish(p)
  \/ Tick

SpecSeq == Init /\ [][NextSeq]_vars

\* SpecApi: the four routes handled concurrently, store calls that succeed.
ApiCallers == {"org", "stuA"}

NextApi ==
  \/ \E p \in Procs, u \in ApiCallers, tid \in TicketIdInputs : StartScan(p, u, tid)
  \/ \E p \in Procs : ScanFind(p)
  \/ \E p \in Procs : ScanUpdate(p)
  \/ \E p \in Procs : ScanAttend(p)
  \/ \E p \in Procs, u \in ApiCallers, eid \in EventIdInputs : StartBooking(p, u, eid)
  \/ \E p \in Procs : BookStudent(p)
  \/ \E p \in Procs : BookCreate(p)
  \/ \E p \in Procs : BookTicket(p)
  \/ \E p \in Procs, u \in ApiCallers : StartStats(p, u)
  \/ \E p \in Procs : StatsOrg(p)
  \/ \E p \in Procs : StatsEvents(p)
  \/ \E p \in Procs : StatsBookings(p)
  \/ \E p \in Procs : StatsAttendance(p)
  \/ \E p \in Procs, u \in ApiCallers, body \in EventBodies : StartEvent(p, u, body)
  \/ \E p \in Procs : EventOrg(p)
  \/ \E p \in Procs : EventCreate(p)
  \/ \E p \in Procs : Finish(p)
  \/ Tick

SpecApi == Init /\ [][NextApi]_vars

\* SpecChat: the chat:message handler alone, invocations interleaving at
\* their awaits; the store calls succeed, the AI call may reject.
NextChat ==
  \/ \E h \in Procs, s \in Sockets, u \in ChatUserIds, m \in ChatTexts : ChatReceive(h, s, u, m)
  \/ \E h \in Procs : ChatSaveUser(h)
  \/ \E h \in Procs, r \in AiResponses : ChatGenerate(h, r)
  \/ \E h \in Procs : ChatSaveAi(h)
  \/ \E h \in Procs : ChatGenerateRejects(h)

SpecChat == Init /\ [][NextChat]_vars

\* SpecAuth: the guest and OTP endpoints, requests handled concurrently,
\* store calls that succeed unless a unique field is violated.
NextAuth ==
  \/ \E p \in Procs, role \in BodyRoles : StartGuest(p, role)
  \/ \E p \in Procs : GuestCreate(p)
  \/ \E p \in Procs, phone \in Phones, otp \in Otps : StartOtpSend(p, phone, otp)
  \/ \E p \in Procs : OtpCreate(p)
  \/ \E p \in Procs, phone \in Phones, otp \in Otps : StartOtpVerify(p, phone, otp)
  \/ \E p \in Procs : VerifyLog(p)
  \/ \E p \in Procs : VerifyFind(p)
  \/ \E p \in Procs : VerifyCreate(p)
  \/ \E p \in Procs : Finish(p)
  \/ Tick

SpecAuth == Init /\ [][NextAuth]_vars

\* ------------------------------------------------------------------ claims
\* Request p is answered in this step.
Responds(p) == pc[p] # "done" /\ pc'[p] = "done"

TicketIds == {t.id : t \in tickets}
TicketsOf(bid) == {t \in tickets : t.bookingId = bid}
ScanSteps == {"scan_find", "scan_update", "scan_attend"}
BookSteps == {"book_student", "book_create", "book_ticket"}
IsScanned(ts, tid) == \E t \in ts : t.id = tid /\ t.isScanned
AttendanceIn(att, tid) == {a \in att : a.ticketId = tid}

\* C1: with requests handled one after the other, an organizer's scan of an
\* existing ticket that no scan has redeemed yet answers success, marks the
\* ticket scanned and leaves exactly one Attendance record of that ticket; a
\* scan of the ticket after that answers 400 (already scanned) and changes
\* neither the tickets nor the Attendance records; a ticket goes from
\* unscanned to scanned only when no scan of it has succeeded before.
C1_SequentialScans ==
  [][ /\ \A p \in Procs :
           (Responds(p) /\ req'[p].op = "scan" /\ req'[p].user.role = "ORGANIZER"
              /\ req'[p].ticketId \in TicketIds)
           => LET tid == req'[p].ticketId
              IN  IF okScans[tid] = 0
                    THEN /\ res'[p].status = 200
                         /\ IsScanned(tickets', tid)
                         /\ Cardinality(AttendanceIn(attendance', tid)) = 1
                         /\ okScans'[tid] = 1
                    ELSE /\ res'[p].status = 400
                         /\ res'[p].error = "Ticket already scanned"
                         /\ tickets' = tickets
                         /\ attendance' = attendance
                         /\ Cardinality(AttendanceIn(attendance, tid)) = 1
                         /\ okScans'[tid] = 1
      /\ \A t \in tickets :
           (~t.isScanned /\ IsScanned(tickets', t.id)) => okScans[t.id] = 0
    ]_vars

\* A second scan of a redeemed ticket has been rejected.
C1_Witness ==
  \E p \in Procs :
    /\ pc[p] = "done" /\ req[p].op = "scan" /\ res[p].status = 400
    /\ okScans[req[p].ticketId] = 1
    /\ Cardinality(AttendanceOf(req[p].ticketId)) = 1

\* C2: whatever the interleaving of the scans of one ticket, at most one of
\* them answers success and at most one Attendance record comes from the ticket.
C2_ConcurrentScans ==
  \A tid \in AllTicketIds :
    /\ okScans[tid] <= 1
    /\ Cardinality(AttendanceOf(tid)) <= 1

\* C3: every booking returned by a successful booking request has exactly one
\* ticket, no booking has more than one, and every ticket references an
\* existing booking.
C3_OneTicketPerBooking ==
  /\ \A bid \in okBookings :
       /\ \E b \in bookings : b.id = bid
       /\ Cardinality(TicketsOf(bid)) = 1
  /\ \A b \in bookings : Cardinality(TicketsOf(b.id)) <= 1
  /\ \A t \in tickets : \E b \in bookings : b.id = t.bookingId
  /\ \A p \in Procs :
       (pc[p] = "done" /\ req[p].op = "book" /\ res[p].status = 200)
       => /\ res[p].booking.id \in okBookings
          /\ res[p].booking \in bookings
          /\ res[p].ticket.id \in {t.id : t \in TicketsOf(res[p].booking.id)}

\* Two booking requests have succeeded.
C3_Witness ==
  /\ Cardinality(okBookings) = 2
  /\ \E p \in Procs : pc[p] = "done" /\ req[p].op = "book" /\ res[p].status = 200

\* C4: when no booking request is being handled, every booking has a ticket.
C4_NoOrphanBooking ==
  (\A p \in Procs : pc[p] \notin BookSteps)
  => \A b \in bookings : TicketsOf(b.id) # {}

\* C5: no two tickets have the same code.
C5_UniqueTicketCode ==
  \A t1, t2 \in tickets : t1.qrCode = t2.qrCode => t1 = t2

\* Two tickets were minted at the same clock instant.
C5_Witness ==
  \E t1, t2 \in tickets : \E now \in 0..MaxClock :
    /\ t1 # t2
    /\ t1.qrCode = QrCode(t1.bookingId, now)
    /\ t2.qrCode = QrCode(t2.bookingId, now)

\* C6: no step of any route removes a ticket or takes a scanned ticket back
\* to unscanned.
C6_ScannedIsTerminal ==
  [][ \A t \in tickets :
        \E t2 \in tickets' : t2.id = t.id /\ (t.isScanned => t2.isScanned) ]_vars

\* A ticket scanned at instant 0 is still scanned after a booking made at
\* instant 1, the creation of an event and an answered stats request.
C6_Witness ==
  /\ \E t, t2 \in tickets :
       /\ t.isScanned /\ t.scannedAt = <<0>>
       /\ t2 # t /\ t2.qrCode = QrCode(t2.bookingId, 1)
  /\ Cardinality(events) > Cardinality(SeedEvents)
  /\ \E p \in Procs : pc[p] = "done" /\ req[p].op = "stats" /\ res[p].status = 200

\* C7: the step that answers a scan with success adds exactly one Attendance
\* record, with the studentId and eventId of the booking of the scanned
\* ticket, and returns that booking's student; the earlier steps of a scan
\* add none.
C7_SuccessAppendsAttendance ==
  [][ \A p \in Procs :
        /\ (Responds(p) /\ req'[p].op = "scan" /\ res'[p].status = 200)
           => \E t \in tickets :
                /\ t.id = req'[p].ticketId
                /\ \E b \in bookings :
                     /\ b.id = t.bookingId
                     /\ \E a \in attendance' \ attendance :
                          /\ attendance' = attendance \cup {a}
                          /\ a.studentId = b.studentId
                          /\ a.eventId = b.eventId
                     /\ res'[p].student.id = b.studentId
                     /\ res'[p].student = StudentRow(b.studentId)
        /\ (pc[p] \in ScanSteps /\ pc'[p] # pc[p] /\ ~(res'[p].status = 200))
           => attendance' = attendance
    ]_vars

\* A scan has answered success and the Attendance record of its ticket exists.
C7_Witness ==
  \E p \in Procs :
    /\ pc[p] = "done" /\ req[p].op = "scan" /\ res[p].status = 200
    /\ AttendanceOf(req[p].ticketId) # {}

\* C8: when no scan request is being handled, there are as many Attendance
\* records as scanned tickets.
C8_AttendancePerScan ==
  (\A p \in Procs : pc[p] \notin ScanSteps)
  => Cardinality(attendance) = Cardinality({t \in tickets : t.isScanned})

\* C9: a scan request of a caller whose role is not ORGANIZER is answered 403
\* at once, in a step that changes no ticket and no Attendance record.
C9_NonOrganizerRejected ==
  /\ [](\A p \in Procs :
          (req[p].op = "scan" /\ req[p].user.role # "ORGANIZER")
          => pc[p] = "done" /\ res[p].status = 403)
  /\ [][ \A p \in Procs :
           (pc'[p] # pc[p] /\ req'[p].op = "scan" /\ req'[p].user.role # "ORGANIZER"
              /\ pc'[p] # "idle")
           => tickets' = tickets /\ attendance' = attendance ]_vars

\* A student has presented an existing, unscanned ticket and was rejected.
C9_Witness ==
  \E p \in Procs :
    /\ pc[p] = "done" /\ req[p].op = "scan" /\ req[p].user.role # "ORGANIZER"
    /\ res[p].status = 403
    /\ req[p].ticketId \in TicketIds /\ ~IsScanned(tickets, req[p].ticketId)

\* C10: the lookup step of an organizer's scan that finds no ticket with the
\* given id answers 404 and changes no ticket and no Attendance record.
C10_TicketNotFound ==
  [][ \A p \in Procs :
        (pc[p] = "scan_find" /\ pc'[p] # pc[p] /\ req[p].ticketId \notin TicketIds)
        => /\ pc'[p] = "done"
           /\ res'[p].status = 404
           /\ res'[p].error = "Ticket not found"
           /\ tickets' = tickets
           /\ attendance' = attendance ]_vars

\* A scan of an unknown id was answered 404 while the store holds tickets.
C10_Witness ==
  \E p \in Procs :
    /\ pc[p] = "done" /\ req[p].op = "scan" /\ req[p].user.role = "ORGANIZER"
    /\ res[p].status = 404
    /\ tickets # {} /\ req[p].ticketId \notin TicketIds

\* C11: an organizer's scan that presents the code (qrCode) of an issued
\* ticket redeems that ticket: it answers success and the ticket is scanned
\* (or 400 when the ticket had been scanned before).
C11_ScanByTicketCode ==
  \A p \in Procs :
    (pc[p] = "done" /\ req[p].op = "scan" /\ req[p].user.role = "ORGANIZER"
       /\ req[p].ticketId \in TicketCodes)
    => \E t \in tickets :
         /\ t.qrCode = req[p].ticketId
         /\ \/ res[p].status = 200 /\ t.isScanned
            \/ res[p].status = 400

\* C12: every answer of the stats route has 0 <= attendanceRate <= 100, and
\* attendanceRate = 0 when totalRegistrations = 0.
C12_RateInRange ==
  \A p \in Procs :
    (pc[p] = "done" /\ req[p].op = "stats" /\ res[p].status = 200)
    => /\ res[p].attendanceRate[1] >= 0
       /\ res[p].attendanceRate[1] <= 100 * res[p].attendanceRate[2]
       /\ (res[p].totalRegistrations = 0 => res[p].attendanceRate[1] = 0)

\* C14: no event has more bookings than its capacity.
BookingsOfEvent(eid) == {b \in bookings : b.eventId = eid}

C14_CapacityRespected ==
  \A e \in events : Cardinality(BookingsOfEvent(e.id)) <= e.capacity

\* The rows the stats of organizer o are about.
OwnEvents(o) == {e \in events : e.organizerId = o}
OwnBookings(o) == {b \in bookings : \E e \in OwnEvents(o) : e.id = b.eventId}
OwnAttendance(o) == {a \in attendance : \E e \in OwnEvents(o) : e.id = a.eventId}
HasOrganizer(user) == Users[user.id].organizer # <<>>
OrganizerIdOf(user) == Users[user.id].organizer[1].id
HasStudent(user) == Users[user.id].student # <<>>

\* C13: with requests handled one after the other, the stats answer for an
\* organizer whose events have at least one booking has attendanceRate =
\* (Attendance rows of the organizer's events) / (Bookings of those events)
\* x 100, totalRegistrations = that number of Bookings and totalEvents = the
\* number of the organizer's events.
C13_StatsFormula ==
  [][ \A p \in Procs :
        (Responds(p) /\ req'[p].op = "stats" /\ HasOrganizer(req'[p].user)
           /\ OwnBookings(OrganizerIdOf(req'[p].user)) # {})
        => LET o == OrganizerIdOf(req'[p].user)
               r == res'[p]
           IN  /\ r.status = 200
               /\ r.attendanceRate[2] > 0
               /\ r.attendanceRate[1] * Cardinality(OwnBookings(o))
                    = 100 * Cardinality(OwnAttendance(o)) * r.attendanceRate[2]
               /\ r.totalRegistrations = Cardinality(OwnBookings(o))
               /\ r.totalEvents = Cardinality(OwnEvents(o)) ]_vars

\* Stats answered for 2 events, 2 bookings, 1 attended: the rate is 50.
C13_Witness ==
  \E p \in Procs :
    /\ pc[p] = "done" /\ req[p].op = "stats" /\ res[p].status = 200
    /\ res[p].totalEvents = 2
    /\ res[p].totalRegistrations = 2
    /\ res[p].attendanceRate = <<100, 2>>

\* C15: a booking request of a caller without Student profile only ever
\* stands at the student lookup or is answered 400 "Not a student", and none
\* of its steps adds a Booking or a Ticket.
C15_NotAStudent ==
  /\ [](\A p \in Procs :
          (req[p].op = "book" /\ ~HasStudent(req[p].user))
          => /\ pc[p] \in {"book_student", "done"}
             /\ pc[p] = "done" => (res[p].status = 400 /\ res[p].error = "Not a student"))
  /\ [][ \A p \in Procs :
           (req'[p].op = "book" /\ ~HasStudent(req'[p].user) /\ pc'[p] # pc[p])
           => bookings' = bookings /\ tickets' = tickets ]_vars

\* A caller without Student profile asked for an existing event and got 400.
C15_Witness ==
  \E p \in Procs :
    /\ pc[p] = "done" /\ req[p].op = "book" /\ ~HasStudent(req[p].user)
    /\ EventExists(req[p].eventId)
    /\ res[p].status = 400

\* C16: a student's booking request for an eventId that no Event has is
\* answered with the EventNotFound rejection (404), and every Booking
\* references an existing Event.
C16_EventNotFound ==
  /\ \A p \in Procs :
       (pc[p] = "done" /\ req[p].op = "book" /\ HasStudent(req[p].user)
          /\ ~EventExists(req[p].eventId))
       => res[p].status = 404
  /\ \A b \in bookings : EventExists(b.eventId)

\* C17: no step of a stats request changes an Event, Booking, Ticket or
\* Attendance row, and with requests handled one after the other its answer
\* is determined by the organizer's own events and the Bookings and
\* Attendance rows of those events alone.
C17_StatsScopedRead ==
  [][ \A p \in Procs :
        /\ (req'[p].op = "stats" /\ pc'[p] # pc[p]) => UNCHANGED store
        /\ (Responds(p) /\ req'[p].op = "stats" /\ res'[p].status = 200)
           => LET o == OrganizerIdOf(req'[p].user)
                  r == res'[p]
              IN  /\ r.totalEvents = Cardinality(OwnEvents(o))
                  /\ r.totalRegistrations = Cardinality(OwnBookings(o))
                  /\ r.totalRevenue = TotalRevenue(Cardinality(OwnBookings(o)))
                  /\ r.attendanceRate
                       = AttendanceRate(Cardinality(OwnAttendance(o)), Cardinality(OwnBookings(o)))
    ]_vars

\* Organizer o1 got its stats while an event of organizer o2 has a booking
\* and an Attendance row that the answer does not count.
C17_Witness ==
  \E p \in Procs :
    /\ pc[p] = "done" /\ req[p].op = "stats" /\ res[p].status = 200
    /\ OrganizerIdOf(req[p].user) = "o1"
    /\ OwnBookings("o2") # {} /\ OwnAttendance("o2") # {}
    /\ res[p].totalRegistrations < Cardinality(bookings)

\* C18: every step keeps every existing Booking row as it is, and every new
\* Booking row has status PAID.
C18_BookingImmutable ==
  [][ /\ \A b \in bookings : b \in bookings'
      /\ \A b \in bookings' \ bookings : b.status = "PAID" ]_vars

\* A booking whose ticket was scanned, and a booking made after it.
C18_Witness ==
  /\ Cardinality(bookings) = 2
  /\ \E t \in tickets : t.isScanned /\ t.bookingId = Id("b", 1) /\ AttendanceOf(t.id) # {}
  /\ \A b \in bookings : b.status = "PAID"

\* C20: in every state a ticket is scanned exactly when its scan timestamp is
\* set, and every ticket a step adds is unscanned without timestamp.
C20_ScannedIffTimestamp ==
  /\ [](\A t \in tickets : t.isScanned <=> t.scannedAt # <<>>)
  /\ [][ \A t \in tickets' :
           t.id \notin TicketIds => (~t.isScanned /\ t.scannedAt = <<>>) ]_vars

\* A scan stands between its ticket update and its Attendance insert.
C20_Witness ==
  \E p \in Procs :
    /\ pc[p] = "scan_attend"
    /\ \E t \in tickets : t.id = req[p].ticketId /\ t.isScanned /\ t.scannedAt # <<>>
    /\ AttendanceOf(req[p].ticketId) = {}

\* C19: for every chat:message received a chat:response is emitted to that
\* socket: whenever no invocation of the handler is running, every socket has
\* been sent as many chat:response events as it received chat:message events.
ChatQuiet == \A h \in Procs : cpc[h] = "idle"

C19_ChatAlwaysAnswered ==
  ChatQuiet => \A s \in Sockets : Len(emitted[s]) = received[s]

\* What an Attendance row says, without its generated id.
AttendanceFacts(att) ==
  {[studentId |-> a.studentId, eventId |-> a.eventId, ticketId |-> a.ticketId] : a \in att}
ExpectedAttendance(t) ==
  [studentId |-> BookingOf(t).studentId, eventId |-> BookingOf(t).eventId, ticketId |-> t.id]
OtherScansAvoid(p, tid) ==
  \A q \in Procs \ {p} : req[q].op = "scan" => req[q].ticketId # tid

\* C21: scans of different tickets do not interfere, whatever the
\* interleaving of their steps.  (a) A step of a scan request changes no
\* ticket other than its own and adds no Attendance row of another ticket.
\* (b) An organizer's scan of an existing ticket that no scan has redeemed,
\* with every other scan in flight being about another ticket, answers
\* success.  (c) When two scans of different tickets have both answered
\* success, each being the only success for its ticket, both tickets are
\* scanned and each has exactly the one Attendance row derived from its
\* booking, as after the two scans in sequence in either order.
C21_IndependentScans ==
  /\ [][ \A p \in Procs :
           (req'[p].op = "scan" /\ pc'[p] # pc[p])
           => /\ \A t \in tickets : t.id # req'[p].ticketId => t \in tickets'
              /\ \A a \in attendance' \ attendance : a.ticketId = req'[p].ticketId
              /\ attendance \subseteq attendance' ]_vars
  /\ [][ \A p \in Procs :
           (Responds(p) /\ req[p].op = "scan" /\ req[p].user.role = "ORGANIZER"
              /\ req[p].ticketId \in TicketIds /\ okScans[req[p].ticketId] = 0
              /\ OtherScansAvoid(p, req[p].ticketId))
           => res'[p].status = 200 ]_vars
  /\ [](\A p, q \in Procs :
          (/\ pc[p] = "done" /\ req[p].op = "scan" /\ res[p].status = 200
           /\ pc[q] = "done" /\ req[q].op = "scan" /\ res[q].status = 200
           /\ req[p].ticketId # req[q].ticketId
           /\ okScans[req[p].ticketId] = 1 /\ okScans[req[q].ticketId] = 1)
          => \A tid \in {req[p].ticketId, req[q].ticketId} :
               \E t \in tickets :
                 /\ t.id = tid /\ t.isScanned
                 /\ AttendanceFacts(AttendanceOf(tid)) = {ExpectedAttendance(t)})

\* Two scans of different tickets overlapped: the request still waiting for
\* its Attendance insert updated its ticket (clock 0) before the request that
\* has already answered success updated the other ticket (clock 1).
C21_Witness ==
  \E p, q \in Procs :
    /\ pc[p] = "done" /\ req[p].op = "scan" /\ res[p].status = 200
    /\ pc[q] = "scan_attend" /\ req[q].ticketId # req[p].ticketId
    /\ \E t \in tickets : t.id = req[p].ticketId /\ t.scannedAt = <<1>>
    /\ \E t \in tickets : t.id = req[q].ticketId /\ t.scannedAt = <<0>>

\* C22: the scan rejections are decided in the order role, existence,
\* scanned state, each with its own answer, and change no row.  A scan
\* request of a caller whose role is not ORGANIZER is answered 403 when it
\* arrives, whatever ticket it names; an organizer's request whose lookup
\* finds no ticket is answered 404 "Ticket not found"; one whose lookup finds
\* a scanned ticket is answered 400 "Ticket already scanned".
C22_ScanErrorOrder ==
  [][ \A p \in Procs :
        /\ (pc[p] = "idle" /\ req'[p].op = "scan" /\ req'[p].user.role # "ORGANIZER")
           => /\ pc'[p] = "done" /\ res'[p].status = 403
              /\ UNCHANGED store
        /\ (pc[p] = "scan_find" /\ pc'[p] # pc[p] /\ req[p].ticketId \notin TicketIds)
           => /\ pc'[p] = "done" /\ res'[p].status = 404
              /\ res'[p].error = "Ticket not found"
              /\ UNCHANGED store
        /\ (pc[p] = "scan_find" /\ pc'[p] # pc[p] /\ IsScanned(tickets, req[p].ticketId))
           => /\ pc'[p] = "done" /\ res'[p].status = 400
              /\ res'[p].error = "Ticket already scanned"
              /\ UNCHANGED store
        /\ (Responds(p) /\ req'[p].op = "scan" /\ res'[p].status \in {400, 403, 404})
           => UNCHANGED store ]_vars

\* A student's scan of an already scanned ticket was answered 403 while an
\* organizer's scan of the same ticket was answered 400.
C22_Witness ==
  \E p, q \in Procs :
    /\ pc[p] = "done" /\ req[p].op = "scan" /\ req[p].user.role = "STUDENT"
    /\ res[p].status = 403
    /\ pc[q] = "done" /\ req[q].op = "scan" /\ req[q].user.role = "ORGANIZER"
    /\ res[q].status = 400
    /\ req[p].ticketId = req[q].ticketId
    /\ IsScanned(tickets, req[p].ticketId)

\* The sum of the prices of the events that the bookings in bs are for.
RECURSIVE PriceSum(_)
PriceSum(bs) ==
  IF bs = {} THEN 0
  ELSE LET b == CHOOSE x \in bs : TRUE
           e == CHOOSE x \in events : x.id = b.eventId
       IN  e.price + PriceSum(bs \ {b})

\* C23: the totalRevenue of every stats answer is 100 x totalRegistrations,
\* and 0 when there are no registrations.
C23_RevenuePlaceholder ==
  \A p \in Procs :
    (pc[p] = "done" /\ req[p].op = "stats" /\ res[p].status = 200)
    => /\ res[p].totalRevenue = 100 * res[p].totalRegistrations
       /\ res[p].totalRegistrations = 0 => res[p].totalRevenue = 0

\* Stats answered for two bookings whose events' prices do not add up to the
\* revenue in the answer.
C23_Witness ==
  \E p \in Procs :
    /\ pc[p] = "done" /\ req[p].op = "stats" /\ res[p].status = 200
    /\ res[p].totalRegistrations = 2
    /\ Cardinality(OwnBookings(OrganizerIdOf(req[p].user))) = 2
    /\ PriceSum(OwnBookings(OrganizerIdOf(req[p].user))) # res[p].totalRevenue

IsApprovedOrganizer(user) ==
  /\ user.role = "ORGANIZER"
  /\ HasOrganizer(user)
  /\ Users[user.id].organizer[1].isApproved

\* C24: a create-event request is answered with success only when the
\* caller's role is ORGANIZER and the caller's Organizer profile is approved;
\* the step that answers success adds exactly the event it returns, with
\* status PENDING and the caller's organizer id; no other step of a
\* create-event request, and no step of a request that is rejected, adds or
\* changes an event; a request of any other caller gets no further than the
\* organizer lookup and is answered 403.
C24_EventGate ==
  [][ \A p \in Procs :
        /\ (Responds(p) /\ req'[p].op = "event" /\ res'[p].status = 200)
           => /\ IsApprovedOrganizer(req'[p].user)
              /\ events' = events \cup {res'[p].event}
              /\ res'[p].event \notin events
              /\ res'[p].event.status = "PENDING"
              /\ res'[p].event.organizerId = OrganizerIdOf(req'[p].user)
        /\ (req'[p].op = "event" /\ pc'[p] # pc[p]
              /\ ~(pc'[p] = "done" /\ res'[p].status = 200))
           => events' = events
        /\ (req'[p].op = "event" /\ pc'[p] # pc[p] /\ ~IsApprovedOrganizer(req'[p].user))
           => /\ pc'[p] \in {"event_org", "done"}
              /\ pc'[p] = "done" => res'[p].status = 403
    ]_vars

\* An approved organizer's request whose body asked for another organizer's
\* id and status APPROVED succeeded; the event is PENDING and the caller's.
C24_Witness ==
  \E p \in Procs :
    /\ pc[p] = "done" /\ req[p].op = "event" /\ res[p].status = 200
    /\ req[p].body.organizerId = "o2" /\ req[p].body.status = "APPROVED"
    /\ res[p].event \in events
    /\ res[p].event.organizerId = "o1" /\ res[p].event.status = "PENDING"

\* C25: an OTP verification is answered with a token only when, at the time
\* of its lookup, an OTPLog row with the request's phone and otp existed
\* whose expiry was later than that time; every OTPLog row expires OtpTtl
\* after it was requested; a verification that finds no such row is answered
\* 400, and no step of a verification that is not answered with a token adds
\* a user; in every state no two User rows have the same phone.
C25_OtpVerify ==
  /\ [][ \A p \in Procs :
           /\ (Responds(p) /\ req[p].op = "verify" /\ res'[p].status = 200)
              => /\ \E l \in otpLogs :
                      l.phone = req[p].phone /\ l.otp = req[p].otp /\ l.expiresAt > req[p].now
                 /\ res'[p].token \in issued'
                 /\ res'[p].user \in users'
                 /\ res'[p].user.phone = <<req[p].phone>>
           /\ (pc[p] = "verify_log" /\ pc'[p] # pc[p]
                 /\ ~ \E l \in otpLogs :
                        l.phone = req[p].phone /\ l.otp = req[p].otp /\ l.expiresAt > req[p].now)
              => pc'[p] = "done" /\ res'[p].status = 400
           /\ (req'[p].op = "verify" /\ pc'[p] # pc[p]
                 /\ ~(pc'[p] = "done" /\ res'[p].status = 200))
              => users' = users /\ issued' = issued ]_vars
  /\ [][ \A l \in otpLogs' \ otpLogs :
           \E p \in Procs : pc[p] = "otp_create" /\ l.expiresAt = loc[p].expiresAt
                            /\ l.expiresAt <= clock + OtpTtl ]_vars
  /\ [](\A u, v \in users : (u.phone # <<>> /\ u.phone = v.phone) => u = v)

\* Two verifications for a new phone ran concurrently: one was answered with
\* a token, the other ended on the rejected create, and one User row has the
\* phone.
C25_Witness ==
  \E p, q \in Procs :
    /\ pc[p] = "done" /\ req[p].op = "verify" /\ res[p].status = 200
    /\ pc[q] = "done" /\ req[q].op = "verify" /\ res[q].status = 500
    /\ req[p].phone = req[q].phone
    /\ Cardinality(UserOfPhone(req[p].phone)) = 1

\* C26: every User row created by the guest endpoint or by OTP verification
\* has role GUEST or STUDENT, a guest request is answered with a GUEST user
\* and a token of role GUEST whatever role its body carries, and no token
\* signed by these endpoints passes the ORGANIZER check of scan and event
\* creation or the ADMIN check of the admin routes.
C26_NoPrivilegedRole ==
  /\ \A u \in users : u.role \in {"GUEST", "STUDENT"}
  /\ \A u \in users : u.phone # <<>> => u.role = "STUDENT"
  /\ \A p \in Procs :
       (pc[p] = "done" /\ req[p].op = "guest" /\ res[p].status = 200)
       => res[p].user.role = "GUEST" /\ res[p].token.role = "GUEST"
  /\ \A t \in issued : ~ScanRoleOK(t) /\ ~EventRoleOK(t) /\ ~AdminRoleOK(t)

\* A guest request whose body asked for ADMIN was answered, and an OTP
\* verification created a user.
C26_Witness ==
  /\ \E p \in Procs :
       /\ pc[p] = "done" /\ req[p].op = "guest" /\ req[p].body.role = "ADMIN"
       /\ res[p].status = 200 /\ res[p].token \in issued
  /\ \E u \in users : u.role = "STUDENT" /\ Sign(u) \in issued

====
